---------------------------- MODULE Spec2Model ----------------------------
(***************************************************************************)
(* Model of satellite_visibility.py: the batch pipeline                    *)
(*   load_satellite_data -> clean_time_column -> convert_to_altaz          *)
(*   -> find_visibility -> write_to_file                                   *)
(* run by main, and of find_visibility as a function of arbitrary inputs.  *)
(*                                                                         *)
(* Text is a sequence of one-character strings.  A cell of the             *)
(* 'Time (iso)' column is either missing (NaN/None) or a text.  A pandas   *)
(* Series is a sequence of [idx, val] pairs: the index label travels with  *)
(* the value through dropna and boolean indexing.  Index labels start at 1 *)
(* here (pandas' RangeIndex starts at 0).  Altitudes are in thousandths of *)
(* a degree, so that 9.999 and 85.001 are the integers 9999 and 85001.     *)
(***************************************************************************)
EXTENDS Integers, Sequences, FiniteSets, TLC

VARIABLES
    pc,            \* position in main, or in the find_visibility harness
    input_file,    \* the file at file_path: missing, or a table of rows
    output_file,   \* the file at output_file: absent, or header + rows
    output_before, \* output_file as it was when the run started
    sat_data,      \* main's sat_data (DataFrame, rows carry their index)
    valid_times,   \* clean_time_column's local valid_times (Series)
    times,         \* main's times (astropy Time: a sequence of instants)
    altitudes,     \* main's altitudes (numpy array)
    visible_times, \* main's visible_times (Series)
    refiltered,    \* find_visibility applied to its own result
    error,         \* the exception that ended the run, if any
    stdout,        \* lines printed by main
    steps          \* the functions main has called so far, in call order

vars == <<pc, input_file, output_file, output_before, sat_data, valid_times,
          times, altitudes, visible_times, refiltered, error, stdout, steps>>

---------------------------------------------------------------------------
(* Bounds of the model *)

MaxRows == 3

---------------------------------------------------------------------------
(* Constants of the program, in thousandths of a degree *)

MIN_ALTITUDE == 10000

MAX_ALTITUDE == 85000

---------------------------------------------------------------------------
(* Cells and text *)

NaN == [na |-> TRUE, s |-> <<>>]

Str(s) == [na |-> FALSE, s |-> s]

Whitespace == {" ", "\t"}

\* Texts the 'Time (iso)' column of the input may hold.  "D" and "E" stand
\* for two calendar dates (YYYY-MM-DD), "H" for a time of day (HH:MM:SS.fff),
\* "x" for text that is no timestamp.
TimeCells ==
    { NaN,
      Str(<<" ">>),
      Str(<<"D">>),
      Str(<<" ", "D", "\t">>),
      Str(<<"E">>),
      Str(<<"D", " ", "H">>),
      Str(<<"x">>) }

\* Values of the (RA, Dec, Distance) triple of a row.
Coords == {1, 2}

RECURSIVE lstrip(_)
lstrip(s) ==
    IF s # <<>> /\ Head(s) \in Whitespace THEN lstrip(Tail(s)) ELSE s

RECURSIVE rstrip(_)
rstrip(s) ==
    IF s # <<>> /\ s[Len(s)] \in Whitespace
    THEN rstrip(SubSeq(s, 1, Len(s) - 1))
    ELSE s

\* str.strip(): leading and trailing whitespace removed, inner kept.
strip(s) == rstrip(lstrip(s))

\* Series.dropna()
dropna(ser) == SelectSeq(ser, LAMBDA e : ~e.val.na)

\* Series.astype(str): a text stays, a missing value becomes the text 'nan'
astype_str(ser) ==
    [i \in 1..Len(ser) |->
        [idx |-> ser[i].idx,
         val |-> IF ser[i].val.na THEN Str(<<"n", "a", "n">>) ELSE ser[i].val]]

\* Series.str.strip(): missing values stay missing
str_strip(ser) ==
    [i \in 1..Len(ser) |->
        [idx |-> ser[i].idx,
         val |-> IF ser[i].val.na THEN NaN ELSE Str(strip(ser[i].val.s))]]

\* Variant: the replace('', np.nan) step left out.
replace_empty_left_out(ser) == ser

\* Series.replace('', np.nan)
replace_empty(ser) ==
    [i \in 1..Len(ser) |->
        [idx |-> ser[i].idx,
         val |-> IF ~ser[i].val.na /\ ser[i].val.s = <<>> THEN NaN ELSE ser[i].val]]

\* sat_data['Time (iso)']
TimeColumn(table) ==
    [i \in 1..Len(table) |-> [idx |-> table[i].idx, val |-> table[i].time]]

\* Series.tolist()
tolist(ser) == [i \in 1..Len(ser) |-> ser[i].val]

---------------------------------------------------------------------------
(* Results of a call: a value, or the exception raised *)

NoError == [kind |-> "none", msg |-> ""]

Ok(v) == [err |-> NoError, val |-> v]

Raise(kind, msg) == [err |-> [kind |-> kind, msg |-> msg], val |-> <<>>]

---------------------------------------------------------------------------
(* astropy Time(..., format='iso') *)

\* Whether a text matches the iso format: a date, or a date, one space and
\* a time of day.
IsIso(s) ==
    \/ Len(s) = 1 /\ s[1] \in {"D", "E"}
    \/ Len(s) = 3 /\ s[1] \in {"D", "E"} /\ s[2] = " " /\ s[3] = "H"

\* The instant a matching text denotes.
IsoInstant(s) ==
    (IF s[1] = "D" THEN 1 ELSE 2) + (IF Len(s) = 3 THEN 2 ELSE 0)

\* Variant: values that do not match are skipped instead of raising.
ParseTimesSkipBad(cells) ==
    Ok([i \in 1..Len(SelectSeq(cells, LAMBDA c : ~c.na /\ IsIso(c.s))) |->
            IsoInstant(SelectSeq(cells, LAMBDA c : ~c.na /\ IsIso(c.s))[i].s)])

\* Time(list, format='iso'): every value must match, or the call raises.
ParseTimes(cells) ==
    IF \A i \in 1..Len(cells) : ~cells[i].na /\ IsIso(cells[i].s)
    THEN Ok([i \in 1..Len(cells) |-> IsoInstant(cells[i].s)])
    ELSE Raise("ValueError", "Input values did not match the format class iso")

---------------------------------------------------------------------------
(* The functions of satellite_visibility.py *)

\* load_satellite_data: pd.read_csv gives the rows a RangeIndex.
load_satellite_data(file) ==
    IF file.exists
    THEN Ok([i \in 1..Len(file.table) |->
                [idx |-> i, time |-> file.table[i].time,
                 coord |-> file.table[i].coord]])
    ELSE Raise("FileNotFoundError", "No such file or directory")

\* line 58 of clean_time_column
CleanedTimes(table) ==
    dropna(replace_empty(str_strip(astype_str(dropna(TimeColumn(table))))))

\* Variant: the valid_times.empty check left out.
clean_time_column_unchecked(table) == ParseTimes(tolist(CleanedTimes(table)))

clean_time_column(table) ==
    IF CleanedTimes(table) = <<>>
    THEN Raise("ValueError", "No valid time data available.")
    ELSE ParseTimes(tolist(CleanedTimes(table)))

\* The altitude the external transform gives a coordinate triple at an
\* instant (GCRS -> AltAz at the ground station), in thousandths of a degree.
AltAzDeg(coord, t) ==
    CASE coord = 1 /\ t = 1 -> 10000
      [] coord = 1 /\ t = 2 -> 9999
      [] coord = 1 /\ t = 3 -> 45000
      [] coord = 1 /\ t = 4 -> 0 - 20000
      [] coord = 2 /\ t = 1 -> 85000
      [] coord = 2 /\ t = 2 -> 85001
      [] coord = 2 /\ t = 3 -> 0 - 5000
      [] coord = 2 /\ t = 4 -> 30000

\* convert_to_altaz: SkyCoord broadcasts the row arrays (length of the
\* table) against obstime (length of times) by numpy's rules: equal lengths
\* pair up, a length of one is repeated, anything else raises.
convert_to_altaz(table, t) ==
    IF Len(t) = Len(table)
    THEN Ok([i \in 1..Len(table) |-> AltAzDeg(table[i].coord, t[i])])
    ELSE IF Len(t) = 1
    THEN Ok([i \in 1..Len(table) |-> AltAzDeg(table[i].coord, t[1])])
    ELSE IF Len(table) = 1
    THEN Ok([i \in 1..Len(t) |-> AltAzDeg(table[1].coord, t[i])])
    ELSE Raise("ValueError", "non-scalar data and/or attributes with inconsistent shapes")

\* Variant: strict comparisons, the ends of the window excluded.
VisibilityMaskStrict(alt) ==
    [i \in 1..Len(alt) |-> alt[i] > MIN_ALTITUDE /\ alt[i] < MAX_ALTITUDE]

\* (altitudes >= MIN_ALTITUDE) & (altitudes <= MAX_ALTITUDE)
VisibilityMask(alt) ==
    [i \in 1..Len(alt) |-> alt[i] >= MIN_ALTITUDE /\ alt[i] <= MAX_ALTITUDE]

\* Variant: the selected entries in reverse order.
RECURSIVE BoolIndexReversed(_, _)
BoolIndexReversed(seq, mask) ==
    IF seq = <<>> THEN <<>>
    ELSE IF Head(mask)
         THEN BoolIndexReversed(Tail(seq), Tail(mask)) \o <<Head(seq)>>
         ELSE BoolIndexReversed(Tail(seq), Tail(mask))

\* seq[mask] for a boolean mask of the same length: the selected entries,
\* in order.
RECURSIVE BoolIndex(_, _)
BoolIndex(seq, mask) ==
    IF seq = <<>> THEN <<>>
    ELSE IF Head(mask)
         THEN <<Head(seq)>> \o BoolIndex(Tail(seq), Tail(mask))
         ELSE BoolIndex(Tail(seq), Tail(mask))

\* Variant: the mask is applied one row off (row i judged by altitude i+1).
find_visibility_shifted(table, alt) ==
    IF Len(alt) # Len(table)
    THEN Raise("IndexError", "Boolean index has wrong length")
    ELSE Ok(BoolIndex(TimeColumn(table),
                      [i \in 1..Len(alt) |->
                          i < Len(alt) /\ VisibilityMask(alt)[i + 1]]))

\* Variant: an empty selection is treated as an error.
find_visibility_raise_empty(table, alt) ==
    IF Len(alt) # Len(table)
    THEN Raise("IndexError", "Boolean index has wrong length")
    ELSE IF BoolIndex(TimeColumn(table), VisibilityMask(alt)) = <<>>
    THEN Raise("ValueError", "No visible times")
    ELSE Ok(BoolIndex(TimeColumn(table), VisibilityMask(alt)))

\* find_visibility: a boolean mask of another length than the Series raises.
find_visibility(table, alt) ==
    IF Len(alt) # Len(table)
    THEN Raise("IndexError", "Boolean index has wrong length")
    ELSE Ok(BoolIndex(TimeColumn(table), VisibilityMask(alt)))

\* Series.to_csv(index=False, header=['Visible Times']): a missing value is
\* written as an empty field.
CsvField(cell) == IF cell.na THEN <<>> ELSE cell.s

write_to_file(ser) ==
    [exists |-> TRUE,
     header |-> "Visible Times",
     rows   |-> [i \in 1..Len(ser) |-> CsvField(ser[i].val)]]

---------------------------------------------------------------------------
(* The files before the run *)

InputRows == [time : TimeCells, coord : Coords]

InputTables == UNION { [1..n -> InputRows] : n \in 0..MaxRows }

MissingFile == [exists |-> FALSE, table |-> <<>>]

AbsentOutput == [exists |-> FALSE, header |-> "", rows |-> <<>>]

StaleOutput == [exists |-> TRUE, header |-> "Visible Times", rows |-> << <<"x">> >>]

---------------------------------------------------------------------------
(* main *)

Init ==
    /\ pc = "load"
    /\ input_file \in {MissingFile} \cup { [exists |-> TRUE, table |-> t] : t \in InputTables }
    /\ output_file \in {AbsentOutput, StaleOutput}
    /\ output_before = output_file
    /\ sat_data = <<>>
    /\ valid_times = <<>>
    /\ times = <<>>
    /\ altitudes = <<>>
    /\ visible_times = <<>>
    /\ refiltered = <<>>
    /\ error = NoError
    /\ stdout = <<>>
    /\ steps = <<>>

\* An exception propagates out of main: nothing catches it.
Abort(e) ==
    /\ pc' = "failed"
    /\ error' = e

\* line 98
Load ==
    /\ pc = "load"
    /\ steps' = Append(steps, "load")
    /\ LET r == load_satellite_data(input_file) IN
         IF r.err = NoError
         THEN /\ sat_data' = r.val
              /\ pc' = "clean"
              /\ UNCHANGED error
         ELSE /\ Abort(r.err)
              /\ UNCHANGED sat_data
    /\ UNCHANGED <<input_file, output_file, output_before, valid_times, times,
                   altitudes, visible_times, refiltered, stdout>>

\* Variant: the exception of clean_time_column is caught and the run goes on.
CleanSwallow ==
    /\ pc = "clean"
    /\ steps' = Append(steps, "clean")
    /\ valid_times' = CleanedTimes(sat_data)
    /\ LET r == clean_time_column(sat_data) IN
         /\ times' = r.val
         /\ error' = r.err
         /\ pc' = "convert"
    /\ UNCHANGED <<input_file, output_file, output_before, sat_data,
                   altitudes, visible_times, refiltered, stdout>>

\* line 102
Clean ==
    /\ pc = "clean"
    /\ steps' = Append(steps, "clean")
    /\ valid_times' = CleanedTimes(sat_data)
    /\ LET r == clean_time_column(sat_data) IN
         IF r.err = NoError
         THEN /\ times' = r.val
              /\ pc' = "convert"
              /\ UNCHANGED error
         ELSE /\ Abort(r.err)
              /\ UNCHANGED times
    /\ UNCHANGED <<input_file, output_file, output_before, sat_data,
                   altitudes, visible_times, refiltered, stdout>>

\* line 105
Convert ==
    /\ pc = "convert"
    /\ steps' = Append(steps, "convert")
    /\ LET r == convert_to_altaz(sat_data, times) IN
         IF r.err = NoError
         THEN /\ altitudes' = r.val
              /\ pc' = "filter"
              /\ UNCHANGED error
         ELSE /\ Abort(r.err)
              /\ UNCHANGED altitudes
    /\ UNCHANGED <<input_file, output_file, output_before, sat_data,
                   valid_times, times, visible_times, refiltered, stdout>>

\* line 106
Filter ==
    /\ pc = "filter"
    /\ steps' = Append(steps, "filter")
    /\ LET r == find_visibility(sat_data, altitudes) IN
         IF r.err = NoError
         THEN /\ visible_times' = r.val
              /\ pc' = "write"
              /\ UNCHANGED error
         ELSE /\ Abort(r.err)
              /\ UNCHANGED visible_times
    /\ UNCHANGED <<input_file, output_file, output_before, sat_data,
                   valid_times, times, altitudes, refiltered, stdout>>

\* lines 109-110: to_csv opens the path for writing, which the file system
\* may refuse; then the confirmation is printed.
Write ==
    /\ pc = "write"
    /\ steps' = Append(steps, "write")
    /\ \E writable \in BOOLEAN :
         IF writable
         THEN /\ output_file' = write_to_file(visible_times)
              /\ stdout' = Append(stdout, "The satellite visibility times have been written to")
              /\ pc' = "done"
              /\ UNCHANGED error
         ELSE /\ Abort([kind |-> "OSError", msg |-> "Permission denied"])
              /\ UNCHANGED <<output_file, stdout>>
    /\ UNCHANGED <<input_file, output_before, sat_data, valid_times, times,
                   altitudes, visible_times, refiltered>>

Next == Load \/ Clean \/ Convert \/ Filter \/ Write

Spec == Init /\ [][Next]_vars

---------------------------------------------------------------------------
(* find_visibility as a function: called on an arbitrary table and an     *)
(* arbitrary altitude array, then called again on the rows it selected.   *)

\* Altitudes around both ends of the visibility window.
AltValues ==
    {MIN_ALTITUDE - 1, MIN_ALTITUDE, 45000, MAX_ALTITUDE, MAX_ALTITUDE + 1}

FilterCells == {NaN, Str(<<"D">>), Str(<<" ", "D", "\t">>)}

FilterTables ==
    UNION { { [i \in 1..n |-> [idx |-> i, time |-> c[i], coord |-> 1]] :
                c \in [1..n -> FilterCells] } : n \in 0..MaxRows }

AltArrays == UNION { [1..n -> AltValues] : n \in 0..MaxRows }

InitFilter ==
    /\ pc = "fv_call"
    /\ sat_data \in FilterTables
    /\ altitudes \in AltArrays
    /\ input_file = MissingFile
    /\ output_file = AbsentOutput
    /\ output_before = AbsentOutput
    /\ valid_times = <<>>
    /\ times = <<>>
    /\ visible_times = <<>>
    /\ refiltered = <<>>
    /\ error = NoError
    /\ stdout = <<>>
    /\ steps = <<>>

\* visible_times = find_visibility(sat_data, altitudes)
FvApply ==
    /\ pc = "fv_call"
    /\ LET r == find_visibility(sat_data, altitudes) IN
         IF r.err = NoError
         THEN /\ visible_times' = r.val
              /\ pc' = "fv_again"
              /\ UNCHANGED error
         ELSE /\ pc' = "fv_failed"
              /\ error' = r.err
              /\ UNCHANGED visible_times
    /\ UNCHANGED <<input_file, output_file, output_before, sat_data,
                   valid_times, times, altitudes, refiltered, stdout, steps>>

\* find_visibility(sat_data[mask], altitudes[mask]): the selected rows with
\* their own altitudes.
FvReapply ==
    /\ pc = "fv_again"
    /\ LET mask == VisibilityMask(altitudes)
           r    == find_visibility(BoolIndex(sat_data, mask),
                                   BoolIndex(altitudes, mask))
       IN  /\ refiltered' = r.val
           /\ error' = r.err
           /\ pc' = "fv_done"
    /\ UNCHANGED <<input_file, output_file, output_before, sat_data,
                   valid_times, times, altitudes, visible_times, stdout, steps>>

NextFilter == FvApply \/ FvReapply

SpecFilter == InitFilter /\ [][NextFilter]_vars

---------------------------------------------------------------------------
(* Vocabulary of the properties *)

InBand(a) == a >= MIN_ALTITUDE /\ a <= MAX_ALTITUDE

IdxSet(ser) == { ser[k].idx : k \in 1..Len(ser) }

IdxIncreasing(ser) ==
    \A j, k \in 1..Len(ser) : j < k => ser[j].idx < ser[k].idx

\* A cell that holds a text with at least one character that is no whitespace.
NonBlank(cell) ==
    ~cell.na /\ \E j \in 1..Len(cell.s) : cell.s[j] \notin Whitespace

\* t is raw without its leading and trailing whitespace.
IsStrippedOf(t, raw) ==
    /\ t # <<>>
    /\ t[1] \notin Whitespace
    /\ t[Len(t)] \notin Whitespace
    /\ \E a \in 0..Len(raw) :
          /\ a + Len(t) <= Len(raw)
          /\ SubSeq(raw, a + 1, a + Len(t)) = t
          /\ \A j \in 1..Len(raw) :
                (j <= a \/ j > a + Len(t)) => raw[j] \in Whitespace

PipelineOrder == <<"load", "clean", "convert", "filter", "write">>

Confirmation == "The satellite visibility times have been written to"

\* clean_time_column has been called (and has returned or raised).
CleanCalled == Len(steps) >= 2

\* clean_time_column returned to main.
CleanReturned == Len(steps) >= 2 /\ ~(pc = "failed" /\ Len(steps) = 2)

\* find_visibility returned to main.
FilterReturned == Len(steps) >= 4 /\ ~(pc = "failed" /\ Len(steps) = 4)

\* Some timestamp that survives cleaning does not match the iso format.
HasUnparsable(table) ==
    \E i \in 1..Len(table) :
        NonBlank(table[i].time) /\ ~IsIso(strip(table[i].time.s))

\* Every timestamp is missing, empty or whitespace-only.
AllBlank(table) == \A i \in 1..Len(table) : ~NonBlank(table[i].time)

---------------------------------------------------------------------------
(* C1: find_visibility returns exactly the rows whose altitude a satisfies *)
(* MIN_ALTITUDE <= a <= MAX_ALTITUDE: every retained row is an input row,  *)
(* the number of retained rows is the number of altitudes in the closed    *)
(* interval, a row at exactly either end is retained and a row just        *)
(* outside either end is not.                                              *)
C1_ExactBand ==
    pc \in {"fv_again", "fv_done"} =>
        /\ \A k \in 1..Len(visible_times) :
              \E i \in 1..Len(sat_data) :
                 visible_times[k] = [idx |-> sat_data[i].idx, val |-> sat_data[i].time]
        /\ Len(visible_times) =
              Cardinality({ i \in 1..Len(altitudes) : InBand(altitudes[i]) })
        /\ IdxSet(visible_times) =
              { sat_data[i].idx : i \in { j \in 1..Len(altitudes) : InBand(altitudes[j]) } }
        /\ \A i \in 1..Len(altitudes) :
              /\ altitudes[i] \in {MIN_ALTITUDE, MAX_ALTITUDE}
                    => sat_data[i].idx \in IdxSet(visible_times)
              /\ altitudes[i] \in {MIN_ALTITUDE - 1, MAX_ALTITUDE + 1}
                    => sat_data[i].idx \notin IdxSet(visible_times)

C1_Witness ==
    /\ pc = "fv_again"
    /\ Len(altitudes) = 3
    /\ altitudes[1] = MIN_ALTITUDE - 1
    /\ altitudes[2] = MAX_ALTITUDE
    /\ altitudes[3] = MAX_ALTITUDE + 1
    /\ Len(visible_times) = 1

(* C2: once clean_time_column has computed the cleaned sequence, it holds  *)
(* no missing, empty or whitespace-only value, it holds exactly the        *)
(* stripped timestamps of the rows whose timestamp is neither missing nor  *)
(* blank, in their original order, and when the function returns there is  *)
(* one parsed instant per cleaned timestamp.                               *)
C2_CleanedSequence ==
    CleanCalled =>
        /\ \A k \in 1..Len(valid_times) : NonBlank(valid_times[k].val)
        /\ IdxIncreasing(valid_times)
        /\ IdxSet(valid_times) =
              { sat_data[i].idx : i \in { j \in 1..Len(sat_data) : NonBlank(sat_data[j].time) } }
        /\ \A k \in 1..Len(valid_times) :
              \E i \in 1..Len(sat_data) :
                 /\ sat_data[i].idx = valid_times[k].idx
                 /\ IsStrippedOf(valid_times[k].val.s, sat_data[i].time.s)
        /\ CleanReturned =>
              /\ Len(times) = Len(valid_times)
              /\ \A k \in 1..Len(times) : times[k] = IsoInstant(valid_times[k].val.s)

C2_Witness ==
    /\ pc = "convert"
    /\ Len(sat_data) = 3
    /\ sat_data[1].time = NaN
    /\ sat_data[2].time = Str(<<" ", "D", "\t">>)
    /\ sat_data[3].time = Str(<<" ">>)
    /\ valid_times = << [idx |-> 2, val |-> Str(<<"D">>)] >>
    /\ times = <<1>>

(* C3: main calls the five functions in the fixed order, a function is     *)
(* called only after the previous one returned, a raised exception ends    *)
(* the run with no later call, and the output file differs from what it    *)
(* was before the run only when all five returned.                         *)
C3_OrderInv ==
    /\ Len(steps) <= Len(PipelineOrder)
    /\ steps = SubSeq(PipelineOrder, 1, Len(steps))
    /\ (error # NoError) <=> (pc = "failed")
    /\ pc \notin {"failed", "done"} =>
          /\ Len(steps) < Len(PipelineOrder)
          /\ pc = PipelineOrder[Len(steps) + 1]
    /\ pc = "done" => steps = PipelineOrder
    /\ pc # "done" => output_file = output_before

C3_FailFast ==
    [][ /\ pc = "failed" => UNCHANGED <<pc, steps, output_file>>
        /\ steps' # steps =>
              /\ error = NoError
              /\ steps' = Append(steps, pc)
              /\ output_file' # output_file => pc = "write" /\ pc' = "done" ]_vars

\* C3: the order invariant holds in every state and every step is fail-fast.
C3_LinearPipeline == []C3_OrderInv /\ C3_FailFast

C3_Witness ==
    /\ pc = "failed"
    /\ steps = <<"load", "clean", "convert">>
    /\ output_before = StaleOutput
    /\ output_file = StaleOutput

(* C4: when a timestamp that survives cleaning does not match the iso      *)
(* format, clean_time_column raises ValueError, main has no parsed         *)
(* instants, convert_to_altaz is never called and the output file is       *)
(* untouched.                                                              *)
C4_UnparsableAborts ==
    (CleanCalled /\ HasUnparsable(sat_data)) =>
        /\ pc = "failed"
        /\ error.kind = "ValueError"
        /\ times = <<>>
        /\ altitudes = <<>>
        /\ steps = <<"load", "clean">>
        /\ output_file = output_before

C4_Witness ==
    /\ pc = "failed"
    /\ Len(sat_data) = 2
    /\ sat_data[1].time = Str(<<"D">>)
    /\ sat_data[2].time = Str(<<"x">>)
    /\ error.kind = "ValueError"

(* C5: when every timestamp is missing, empty or whitespace-only (a table  *)
(* of zero rows included), clean_time_column raises ValueError "No valid   *)
(* time data available." and convert_to_altaz is never called.             *)
C5_AllBlankAborts ==
    (CleanCalled /\ AllBlank(sat_data)) =>
        /\ pc = "failed"
        /\ error = [kind |-> "ValueError", msg |-> "No valid time data available."]
        /\ times = <<>>
        /\ altitudes = <<>>
        /\ steps = <<"load", "clean">>
        /\ output_file = output_before

C5_Witness ==
    /\ pc = "failed"
    /\ Len(sat_data) = 2
    /\ sat_data[1].time = NaN
    /\ sat_data[2].time = Str(<<" ">>)
    /\ error.msg = "No valid time data available."

(* C6: on a successful run every timestamp written to the output file is   *)
(* an element of the cleaned timestamp sequence, in its stripped form,     *)
(* and the written timestamps are in ascending original-row order.         *)
C6_WrittenAreCleaned ==
    pc = "done" =>
        /\ \A k \in 1..Len(output_file.rows) :
              \E j \in 1..Len(valid_times) :
                  output_file.rows[k] = valid_times[j].val.s
        /\ IdxIncreasing(visible_times)
        /\ Len(output_file.rows) = Len(visible_times)

(* C7: when find_visibility is reached, there is one altitude per row of   *)
(* the timestamp column, and altitude i is the transform of row i's own    *)
(* coordinates at row i's own observation instant.                         *)
C7_AltitudePerRow ==
    Len(steps) >= 3 /\ ~(pc = "failed" /\ Len(steps) = 3) =>
        /\ Len(altitudes) = Len(sat_data)
        /\ \A i \in 1..Len(sat_data) :
              /\ NonBlank(sat_data[i].time)
              /\ IsIso(strip(sat_data[i].time.s))
              /\ altitudes[i] =
                    AltAzDeg(sat_data[i].coord, IsoInstant(strip(sat_data[i].time.s)))

(* C8: a call of find_visibility returns a subsequence of the timestamp    *)
(* column (each returned entry is the input row of its index, indices      *)
(* strictly increasing, so no row twice and equal timestamps kept apart)   *)
(* and leaves the table and the altitude array as they were.               *)
C8_OrderPreservingSelection ==
    [][ (pc = "fv_call" /\ pc' = "fv_again") =>
          /\ IdxIncreasing(visible_times')
          /\ \A k \in 1..Len(visible_times') :
                \E i \in 1..Len(sat_data) :
                   /\ sat_data[i].idx = visible_times'[k].idx
                   /\ sat_data[i].time = visible_times'[k].val
          /\ \A i, j \in 1..Len(sat_data) :
                (i # j /\ sat_data[i].time = sat_data[j].time
                 /\ InBand(altitudes[i]) /\ InBand(altitudes[j]))
                   => {sat_data[i].idx, sat_data[j].idx} \subseteq IdxSet(visible_times')
          /\ sat_data' = sat_data
          /\ altitudes' = altitudes ]_vars

C8_Witness ==
    /\ pc = "fv_again"
    /\ Len(sat_data) = 3
    /\ Len(visible_times) = 2
    /\ visible_times[1].val = visible_times[2].val
    /\ visible_times[1].idx = 1
    /\ visible_times[2].idx = 3

(* C9: when no row has an altitude in the window, find_visibility returns  *)
(* an empty selection without raising, the write step is reached and can   *)
(* run, a completed run leaves an output of zero timestamp lines in place  *)
(* of whatever was there and prints the confirmation; the run can then     *)
(* fail only by the file system refusing the write.                        *)
C9_EmptyResultIsSuccess ==
    (Len(steps) >= 4 /\ \A i \in 1..Len(altitudes) : ~InBand(altitudes[i])) =>
        /\ visible_times = <<>>
        /\ pc \in {"write", "done", "failed"}
        /\ pc = "write" => ENABLED Write
        /\ pc = "failed" => steps = PipelineOrder /\ error.kind = "OSError"
        /\ pc = "done" =>
              /\ output_file = [exists |-> TRUE, header |-> "Visible Times", rows |-> <<>>]
              /\ stdout = <<Confirmation>>
              /\ error = NoError

C9_Witness ==
    /\ pc = "done"
    /\ Len(sat_data) = 2
    /\ \A i \in 1..Len(altitudes) : ~InBand(altitudes[i])
    /\ output_before = StaleOutput
    /\ output_file.exists
    /\ output_file.rows = <<>>
    /\ stdout = <<Confirmation>>

(* C10: find_visibility applied to the rows it selected, paired with their *)
(* own altitudes, returns the same rows in the same order.                 *)
C10_Idempotent ==
    pc = "fv_done" => error = NoError /\ refiltered = visible_times

C10_Witness ==
    /\ pc = "fv_done"
    /\ Len(sat_data) = 3
    /\ Len(visible_times) = 2
    /\ refiltered = visible_times

===========================================================================
